---- MODULE Spec2Model ----
(***************************************************************************)
(* A model of the chemview harvest tool: the download-plan accumulator     *)
(* (download_plan.py), the harvest state store (HarvestDB.py) with the     *)
(* fetch decision (harvest_framework.do_need_download and                  *)
(* drive_substantial_risk_download._need_download_from_db) and the row     *)
(* loop of harvest_framework.run_harvest.                                  *)
(***************************************************************************)
EXTENDS Integers, Sequences, FiniteSets, TLC

(***************************************************************************)
(* Bounds of the model.                                                    *)
(***************************************************************************)
MaxCalls == 3      \* add_links_to_plan / flush calls in one behaviour
MaxClock == 1      \* seconds the wall clock of the plan writer may advance
MaxBatch == 2      \* largest batch size init() is called with
MaxDbOps == 3      \* log_success / log_failure calls in one behaviour
MaxTicks == 2      \* steps the store's clock takes
TickHours == 13    \* hours that pass in one step of the store's clock
MaxRows == 3       \* rows in the input file
MaxBudget == 1     \* largest max_downloads a run is configured with
MaxRuns == 2       \* runs of run_harvest over the same store and input

NULL == "NULL"     \* Python's None / SQL NULL, for a text column
NoTime == <<>>     \* NULL in a DATETIME column; <<t>> is the time t
At(t) == <<t>>

VARIABLES
    \* ---- download_plan.py, module-level state --------------------------
    DOWNLOAD_PLAN_ACCUM,                  \* the in-memory folder tree
    DOWNLOAD_PLAN_ACCUM_CAS_SET,          \* group names seen since the last reset
    DOWNLOAD_PLAN_ACCUM_CAS_SINCE_WRITE,  \* the counter kept beside the set
    DOWNLOAD_PLAN_WRITE_BATCH_SIZE,       \* the threshold given to init()
    disk,          \* DOWNLOAD_PLAN_OUT_DIR: file name (its timestamp) -> tree
    planClock,     \* datetime.now(), in seconds, as seen by _write_plan_to_disk
    lastCall,      \* what the most recent plan call did (observation only)
    planHist,      \* observation only: call count, write count, group order
    \* ---- HarvestDB.py: the harvest_log table and the clock ---------------
    harvest_log,   \* <<chemical_id, file_type>> -> row, for the rows present
    now,           \* datetime.now(), in hours
    dbHist,        \* observation only: the calls made on the store
    \* ---- harvest_framework.run_harvest ----------------------------------
    rows,          \* the rows csv.DictReader yields from config.input_file
    config,        \* the Config object given to run_harvest
    stop_file,     \* whether the file config.stop_file names exists
    run,           \* the locals of run_harvest and where it stands
    runHist        \* observation only: runs made, dispatches, the last dispatch

planVars == <<DOWNLOAD_PLAN_ACCUM, DOWNLOAD_PLAN_ACCUM_CAS_SET,
              DOWNLOAD_PLAN_ACCUM_CAS_SINCE_WRITE, DOWNLOAD_PLAN_WRITE_BATCH_SIZE,
              disk, planClock, lastCall, planHist>>

dbVars == <<harvest_log, now, dbHist>>

runVars == <<rows, config, stop_file, run, runHist>>

vars == <<planVars, dbVars, runVars>>

(***************************************************************************)
(* Small helpers on sequences.                                             *)
(***************************************************************************)
Range(s) == {s[i] : i \in 1..Len(s)}

InSeq(x, s) == \E i \in 1..Len(s) : s[i] = x

\* list.index(x): the first position of x, 0 when x is not in the list
IndexOf(s, x) ==
    IF InSeq(x, s)
    THEN CHOOSE i \in 1..Len(s) : s[i] = x /\ \A j \in 1..(i - 1) : s[j] # x
    ELSE 0

\* s[i+1:]
After(s, i) == SubSeq(s, i + 1, Len(s))

(***************************************************************************)
(* The plan tree.  A node is the dict                                      *)
(*   {'folder': name, 'subfolderList': [...], 'downloadList': [...]}.      *)
(***************************************************************************)
RootFolder == "chemview_archive"

NewFolder(name) == [folder |-> name, subfolderList |-> <<>>, downloadList |-> <<>>]

\* The first entry of a subfolderList whose 'folder' is name (0: none): the
\* linear search every _ensure_* helper starts with.
FolderIndex(list, name) ==
    IF \E i \in 1..Len(list) : list[i].folder = name
    THEN CHOOSE i \in 1..Len(list) :
            list[i].folder = name /\ \A j \in 1..(i - 1) : list[j].folder # name
    ELSE 0

\* An _ensure_cas_entry without the search loop (a variant of the model)
ensure_cas_entry_appending(plan, cas_folder_name) ==
    [plan EXCEPT !.subfolderList = Append(@, NewFolder(cas_folder_name))]

ensure_cas_entry(plan, cas_folder_name) ==
    IF FolderIndex(plan.subfolderList, cas_folder_name) # 0
    THEN plan
    ELSE [plan EXCEPT !.subfolderList = Append(@, NewFolder(cas_folder_name))]

\* _ensure_subfolder_path on already normalised parts: the entry with the
\* nested path found or created below it.
RECURSIVE ensure_subfolder_path(_, _)
ensure_subfolder_path(cas_entry, parts) ==
    IF parts = <<>>
    THEN cas_entry
    ELSE LET i == FolderIndex(cas_entry.subfolderList, Head(parts))
         IN  IF i # 0
             THEN [cas_entry EXCEPT
                     !.subfolderList[i] = ensure_subfolder_path(@, Tail(parts))]
             ELSE [cas_entry EXCEPT
                     !.subfolderList = Append(@,
                         ensure_subfolder_path(NewFolder(Head(parts)), Tail(parts)))]

\* The node a path of folder names leads to (the reference the helpers return).
RECURSIVE NodeAt(_, _)
NodeAt(node, path) ==
    IF path = <<>>
    THEN node
    ELSE NodeAt(node.subfolderList[FolderIndex(node.subfolderList, Head(path))],
                Tail(path))

\* Whether the folders of a path are all there below a node
RECURSIVE PathExists(_, _)
PathExists(node, path) ==
    \/ path = <<>>
    \/ /\ FolderIndex(node.subfolderList, Head(path)) # 0
       /\ PathExists(node.subfolderList[FolderIndex(node.subfolderList, Head(path))],
                     Tail(path))

\* The number of folder nodes of a tree, the root included
RECURSIVE NodeCount(_)
RECURSIVE NodesIn(_)
NodesIn(list) ==
    IF list = <<>> THEN 0 ELSE NodeCount(Head(list)) + NodesIn(Tail(list))

NodeCount(node) == 1 + NodesIn(node.subfolderList)

\* The tree with the downloadList of the node at path replaced.
RECURSIVE SetDownloadList(_, _, _)
SetDownloadList(node, path, list) ==
    IF path = <<>>
    THEN [node EXCEPT !.downloadList = list]
    ELSE [node EXCEPT
            !.subfolderList[FolderIndex(node.subfolderList, Head(path))] =
                SetDownloadList(@, Tail(path), list)]

\* Every URL stored at or below a node.
RECURSIVE UrlsUnder(_)
UrlsUnder(node) ==
    Range(node.downloadList) \cup
    UNION {UrlsUnder(node.subfolderList[i]) : i \in 1..Len(node.subfolderList)}

\* The URLs a tree holds for one top-level group.
GroupUrls(plan, g) ==
    UNION {UrlsUnder(plan.subfolderList[i]) :
             i \in {j \in 1..Len(plan.subfolderList) : plan.subfolderList[j].folder = g}}

GroupNames(plan) == {plan.subfolderList[i].folder : i \in 1..Len(plan.subfolderList)}

(***************************************************************************)
(* Inputs of add_links_to_plan.                                            *)
(*                                                                         *)
(* cas_dir is a sequence of path components (Path(cas_dir).name is the     *)
(* last one); the empty sequence is the falsy "" the newer drivers pass.   *)
(* subfolder_name is [kind |-> "str", v |-> tokens], a string cut into     *)
(* folder names and separator characters, or [kind |-> "list", v |-> ...], *)
(* a list of parts; a part or a string may be empty.                       *)
(***************************************************************************)
Separators == {"/", "\\"}

Str(tokens) == [kind |-> "str", v |-> tokens]
List(parts) == [kind |-> "list", v |-> parts]

\* Python truthiness of a subfolder_name / cas_dir
Truthy(x) == x # <<>>
SubfolderTruthy(subfolder_name) == subfolder_name.v # <<>>

\* '-' in p, by name
HyphenSegments == {"CAS-1", "CAS-2", "CAS-3", "P-1"}
HasHyphen(p) == p \in HyphenSegments

\* str(name).strip(): a name made of blanks strips to the empty string
BlankNames == {"", " "}
Strip(name) == IF name \in BlankNames THEN "" ELSE name

\* A split on '/' alone (a variant of the model)
re_split_slash(tokens) == SelectSeq(tokens, LAMBDA t : t # "/" /\ t # "")

\* re.split(r'[\\/]+', s) with the empty pieces dropped: the tokens between
\* runs of separators (the inputs keep a separator between two names).
re_split(tokens) == SelectSeq(tokens, LAMBDA t : t \notin Separators /\ t # "")

normalize_subpath(subfolder_name) ==
    IF ~SubfolderTruthy(subfolder_name)
    THEN <<>>
    ELSE IF subfolder_name.kind = "list"
         THEN SelectSeq(subfolder_name.v, LAMBDA p : p # "")
         ELSE re_split(subfolder_name.v)

\* Path(cas_dir).name
PathName(cas_dir) == cas_dir[Len(cas_dir)]

\* A search that takes the first part, hyphen or not (a variant of the model)
FirstPartIndex(parts) == IF parts = <<>> THEN 0 ELSE 1

\* The first part that contains a hyphen (0: none)
FirstHyphenIndex(parts) ==
    IF \E i \in 1..Len(parts) : HasHyphen(parts[i])
    THEN CHOOSE i \in 1..Len(parts) :
            HasHyphen(parts[i]) /\ \A j \in 1..(i - 1) : ~HasHyphen(parts[j])
    ELSE 0

\* add_links_to_plan, lines 109-162: where the links are to be filed.
\* [ok |-> FALSE] is an early "return 0, 0".
ResolveTarget(cas_dir, subfolder_name, links) ==
    LET parts == normalize_subpath(subfolder_name)
        none  == [ok |-> FALSE, cas_folder_name |-> "", relative_parts |-> <<>>]
    IN  IF links = <<>> THEN none
        ELSE IF ~Truthy(cas_dir) /\ ~SubfolderTruthy(subfolder_name) THEN none
        ELSE IF Truthy(cas_dir)
             THEN LET name == PathName(cas_dir)
                      idx  == IndexOf(parts, name)
                  IN  IF Strip(name) = "" THEN none
                      ELSE [ok |-> TRUE,
                            cas_folder_name |-> Strip(name),
                            relative_parts  |-> IF idx # 0 THEN After(parts, idx)
                                                ELSE parts]
             ELSE LET cas_idx == FirstHyphenIndex(parts)
                  IN  IF cas_idx = 0 THEN none
                      ELSE IF Strip(parts[cas_idx]) = "" THEN none
                      ELSE [ok |-> TRUE,
                            cas_folder_name |-> Strip(parts[cas_idx]),
                            relative_parts  |-> After(parts, cas_idx)]

\* The loop without the membership test (a variant of the model)
RECURSIVE AppendAll(_, _)
AppendAll(acc, links) ==
    IF links = <<>>
    THEN acc
    ELSE AppendAll(IF Head(links) = "" THEN acc
                   ELSE [acc EXCEPT !.list = Append(@, Head(links)), !.added = @ + 1],
                   Tail(links))

\* add_links_to_plan, lines 166-177: the loop over links on the leaf's list.
\* acc is [list, added, skipped_duplicates].
RECURSIVE AppendLinks(_, _)
AppendLinks(acc, links) ==
    IF links = <<>>
    THEN acc
    ELSE LET url == Head(links)
         IN  AppendLinks(
                 IF url = "" THEN acc
                 ELSE IF InSeq(url, acc.list)
                      THEN [acc EXCEPT !.skipped_duplicates = @ + 1]
                      ELSE [acc EXCEPT !.list = Append(@, url), !.added = @ + 1],
                 Tail(links))

\* add_links_to_plan, lines 163-177: the tree with the links filed, and the
\* two counts returned.
FileLinks(plan, cas_folder_name, relative_parts, links) ==
    LET withCas  == ensure_cas_entry(plan, cas_folder_name)
        ci       == FolderIndex(withCas.subfolderList, cas_folder_name)
        withPath == [withCas EXCEPT
                       !.subfolderList[ci] = ensure_subfolder_path(@, relative_parts)]
        leafPath == <<cas_folder_name>> \o relative_parts
        acc      == AppendLinks([list |-> NodeAt(withPath, leafPath).downloadList,
                                 added |-> 0, skipped_duplicates |-> 0], links)
    IN  [plan |-> SetDownloadList(withPath, leafPath, acc.list),
         added |-> acc.added,
         skipped_duplicates |-> acc.skipped_duplicates,
         leaf |-> leafPath,
         existed |-> PathExists(plan, leafPath),
         nodes_before |-> NodeCount(plan),
         nodes_after |-> NodeCount(withPath),
         before |-> NodeAt(withPath, leafPath).downloadList,
         after |-> acc.list]

\* line 194: the accumulator is at or above the batch threshold
ThresholdReached(since_write, batch_size) == since_write >= batch_size

\* A reset that does not wait for the write to succeed (a variant of the model)
ResetRegardless(write_due, writeOk) == write_due

\* lines 199-200 and 257-259: _reset_module_plan follows _write_plan_to_disk
\* in the same try block, so it is skipped when the write raises
ResetAfterWrite(write_due, writeOk) == write_due /\ writeOk

\* _write_plan_to_disk: the file named by the current second holds the tree
\* (open(..., 'w') replaces a file of the same name).
write_plan_to_disk(files, plan, ts) ==
    [t \in (DOMAIN files) \cup {ts} |-> IF t = ts THEN plan ELSE files[t]]

\* A reset that leaves the tree as it is (a variant of the model)
reset_keeping_tree(folder_name) == DOWNLOAD_PLAN_ACCUM

\* _reset_module_plan: an empty root that keeps the folder name
reset_module_plan(folder_name) == NewFolder(folder_name)

(***************************************************************************)
(* HarvestDB.py: the harvest_log table, keyed by (chemical_id, file_type). *)
(* setupDB.py gives a row the columns local_filepath,                      *)
(* last_success_datetime, last_failure_datetime and navigate_via.          *)
(***************************************************************************)
Entities == {"A", "B"}
section5_html == "section5_html"
section5_pdf == "section5_pdf"
FileTypes == {section5_html, section5_pdf}
Pairs == Entities \X FileTypes
LocalPaths == {"p1"}

Row(local_filepath, last_success, last_failure) ==
    [local_filepath |-> local_filepath,
     last_success_datetime |-> last_success,
     last_failure_datetime |-> last_failure,
     navigate_via |-> NULL]

\* HarvestDB.get_harvest_status: the set holding the row as a dict of the
\* three selected columns, or the empty set for None.  reachable: whether
\* sqlite3 can execute the query (a sqlite3.Error is caught and gives None).
get_harvest_status(db, chemical_id, file_type, reachable) ==
    IF ~reachable THEN {}
    ELSE IF <<chemical_id, file_type>> \notin DOMAIN db THEN {}
    ELSE LET row == db[<<chemical_id, file_type>>]
         IN  {[local_filepath |-> row.local_filepath,
               last_success_datetime |-> row.last_success_datetime,
               last_failure_datetime |-> row.last_failure_datetime]}

\* A log_success that keeps the time of a success it replaces in the failure
\* column (a variant of the model)
log_success_shifting(db, chemical_id, file_type, local_filepath, t) ==
    [k \in (DOMAIN db) \cup {<<chemical_id, file_type>>} |->
        IF k = <<chemical_id, file_type>>
        THEN Row(local_filepath, At(t),
                 IF k \in DOMAIN db THEN db[k].last_success_datetime ELSE NoTime)
        ELSE db[k]]

\* HarvestDB.log_success: INSERT OR REPLACE of the whole row
log_success(db, chemical_id, file_type, local_filepath, t) ==
    [k \in (DOMAIN db) \cup {<<chemical_id, file_type>>} |->
        IF k = <<chemical_id, file_type>>
        THEN Row(local_filepath, At(t), NoTime)
        ELSE db[k]]

\* A log_failure written like log_success, as INSERT OR REPLACE (a variant
\* of the model, to see that the properties below tell the two apart)
log_failure_replacing(db, chemical_id, file_type, t) ==
    [k \in (DOMAIN db) \cup {<<chemical_id, file_type>>} |->
        IF k = <<chemical_id, file_type>>
        THEN Row(NULL, NoTime, At(t))
        ELSE db[k]]

\* HarvestDB.log_failure: INSERT ... ON CONFLICT DO UPDATE of the failure time
log_failure(db, chemical_id, file_type, t) ==
    [k \in (DOMAIN db) \cup {<<chemical_id, file_type>>} |->
        IF k = <<chemical_id, file_type>>
        THEN IF k \in DOMAIN db
             THEN [db[k] EXCEPT !.last_failure_datetime = At(t)]
             ELSE Row(NULL, NoTime, At(t))
        ELSE db[k]]

\* A do_need_download that skips whenever a record exists (a variant)
do_need_download_any_record(db, cas_val, file_type, reachable) ==
    get_harvest_status(db, cas_val, file_type, reachable) = {}

\* harvest_framework.do_need_download
do_need_download(db, cas_val, file_type, reachable) ==
    LET record == get_harvest_status(db, cas_val, file_type, reachable)
    IN  IF record # {}
        THEN LET r == CHOOSE x \in record : TRUE
             IN  IF r.last_success_datetime = NoTime
                 THEN IF r.last_failure_datetime = NoTime THEN TRUE ELSE FALSE
                 ELSE FALSE
        ELSE TRUE

\* drive_substantial_risk_download._need_download_from_db, whose cool-down
\* is the literal timedelta(hours=24); t is datetime.now()
CoolDownHours == 24

\* A _need_download_from_db that looks at the failure time first (a variant)
need_download_failure_first(db, cas_val, file_type, t, reachable) ==
    LET record == get_harvest_status(db, cas_val, file_type, reachable)
    IN  IF record # {}
        THEN LET r == CHOOSE x \in record : TRUE
             IN  IF r.last_failure_datetime # NoTime
                 THEN t - r.last_failure_datetime[1] > CoolDownHours
                 ELSE r.last_success_datetime = NoTime
        ELSE TRUE

need_download_from_db(db, cas_val, file_type, t, reachable) ==
    LET record == get_harvest_status(db, cas_val, file_type, reachable)
    IN  IF record # {}
        THEN LET r == CHOOSE x \in record : TRUE
             IN  IF r.last_success_datetime # NoTime
                 THEN FALSE
                 ELSE IF r.last_failure_datetime # NoTime
                      THEN t - r.last_failure_datetime[1] > CoolDownHours
                      ELSE TRUE
        ELSE TRUE

\* Config.retry_interval_hours: the default and another setting
DefaultRetryIntervalHours == 12
RetryIntervals == {DefaultRetryIntervalHours, CoolDownHours}

\* Positional parameters after self of HarvestDB.log_success and
\* HarvestDB.log_failure, and the arguments run_harvest passes to them: a
\* call with another number of arguments raises TypeError.
LogSuccessParams == 3
LogFailureParams == 2
LogSuccessArgs == 4
LogFailureArgs == 3
Accepts(params, args) == params = args

\* The navigate_via value a caller holds for a fetched file
NavigateVia == "via"

DbStart ==
    [ops |-> 0, succeeded |-> {},
     last |-> [op |-> "none", key |-> <<"", "">>, local_filepath |-> NULL,
               navigate_via |-> NULL, raised |-> FALSE],
     before |-> <<>>, repeated |-> FALSE]

\* The call made now, and whether it repeats the call before it (observation)
Recorded(call) ==
    [ops |-> dbHist.ops + 1,
     succeeded |-> IF call.op = "log_success" /\ ~call.raised
                   THEN dbHist.succeeded \cup {call.key} ELSE dbHist.succeeded,
     last |-> call,
     before |-> harvest_log,
     repeated |-> call = dbHist.last]

DbBudget == dbHist.ops < MaxDbOps

\* db.log_success(id, ft, path) as harvestSection5.main calls it, or
\* db.log_success(id, ft, path, navigate_via) as run_harvest and the drivers
\* call it: the second form does not bind to the method and raises TypeError
\* before the method body runs.
LogSuccess ==
    /\ DbBudget
    /\ \E id \in Entities, ft \in FileTypes, path \in LocalPaths,
          args \in {LogSuccessParams, LogSuccessArgs} :
          LET raised == ~Accepts(LogSuccessParams, args)
          IN  /\ harvest_log' = IF raised THEN harvest_log
                                ELSE log_success(harvest_log, id, ft, path, now)
              /\ dbHist' = Recorded([op |-> "log_success", key |-> <<id, ft>>,
                                      local_filepath |-> path,
                                      navigate_via |-> IF args = LogSuccessArgs
                                                       THEN NavigateVia ELSE NULL,
                                      raised |-> raised])
    /\ UNCHANGED now
    /\ UNCHANGED <<planVars, runVars>>

LogFailure ==
    /\ DbBudget
    /\ \E id \in Entities, ft \in FileTypes :
          /\ harvest_log' = log_failure(harvest_log, id, ft, now)
          /\ dbHist' = Recorded([op |-> "log_failure", key |-> <<id, ft>>,
                                  local_filepath |-> NULL, navigate_via |-> NULL,
                                  raised |-> FALSE])
    /\ UNCHANGED now
    /\ UNCHANGED <<planVars, runVars>>

DbTick ==
    /\ now < MaxTicks * TickHours
    /\ now' = now + TickHours
    /\ UNCHANGED <<harvest_log, dbHist>>
    /\ UNCHANGED <<planVars, runVars>>

\* The table as a run finds it: empty, or holding a row with neither time
\* set (the schema allows it; do_need_download has a branch for it).
InitStores ==
    {<<>>} \cup {[k \in {key} |-> Row(NULL, NoTime, NoTime)] : key \in Pairs}

DbInit ==
    /\ harvest_log \in InitStores
    /\ now = 0
    /\ dbHist = DbStart

NextDB == LogSuccess \/ LogFailure \/ DbTick

(***************************************************************************)
(* The operations of the plan accumulator.  Every driver passes the        *)
(* module-level tree as `plan`, so `plan is DOWNLOAD_PLAN_ACCUM` holds.    *)
(***************************************************************************)
\* The calls made on the accumulator: a CAS directory with a relative
\* subfolder (drive_new_chemical_notice_download), no CAS directory and a full
\* path that holds the CAS folder (drive_section5_download,
\* drive_premanufacture_notice_download), and calls that cannot be filed.
Call(cas_dir, subfolder_name, links) ==
    [cas_dir |-> cas_dir, subfolder_name |-> subfolder_name, links |-> links]

PlanCalls ==
    {Call(<<RootFolder, "CAS-1">>, Str(<<"docs">>), <<"u1">>),
     Call(<<RootFolder, "CAS-1">>, Str(<<>>), <<"u2", "u1">>),
     Call(<<RootFolder, "CAS-2">>, List(<<"docs">>), <<"u1", "", "u1">>),
     Call(<<>>, Str(<<RootFolder, "/", "CAS-3", "/", "P-1", "/", "docs">>), <<"u2">>),
     Call(<<>>, Str(<<RootFolder, "\\", "CAS-2", "\\", "docs">>), <<"u2">>),
     Call(<<>>, Str(<<>>), <<"u1">>),
     Call(<<>>, Str(<<"docs">>), <<"u1">>),
     Call(<<RootFolder, "CAS-1">>, Str(<<"docs">>), <<>>),
     Call(<<RootFolder, "CAS-1">>, Str(<<"P-1", "\\", "docs">>), <<"u1">>)}

PlanBudget == planHist.calls < MaxCalls /\ ~planHist.exited

\* The order in which groups were filed stays group by group (observation)
NextOrder(g) ==
    [planHist EXCEPT
        !.calls = @ + 1,
        !.closed = IF planHist.current # "" /\ planHist.current # g
                   THEN @ \cup {planHist.current} ELSE @,
        !.interleaved = @ \/ (g \in planHist.closed),
        !.current = g,
        !.groups = @ \cup {g}]

\* What flush() returns: None, or the path of the file it wrote
NoPath == <<>>
PathAt(ts) == <<ts>>

\* The <<group, URL>> pairs a call files (observation)
Filed(g, links) == {<<g, u>> : u \in Range(links) \ {""}}

NotFiled(op) ==
    [op |-> op, filed |-> FALSE, group |-> "", links |-> <<>>, ret |-> <<0, 0>>,
     flushed |-> FALSE, wrote |-> FALSE, ts |-> planClock,
     leaf |-> <<>>, before |-> <<>>, after |-> <<>>, path |-> NoPath,
     existed |-> FALSE, nodes_before |-> 0, nodes_after |-> 0,
     cas_dir |-> <<>>, subfolder_name |-> Str(<<>>)]

\* add_links_to_plan(DOWNLOAD_PLAN_ACCUM, cas_dir, subfolder_name, links);
\* writeOk: whether the open()/json.dump of an automatic flush succeeds.
add_links_to_plan(cas_dir, subfolder_name, links, writeOk) ==
    LET target == ResolveTarget(cas_dir, subfolder_name, links)
    IN  IF ~target.ok
        THEN /\ lastCall' = [NotFiled("add") EXCEPT !.links = links,
                                                    !.cas_dir = cas_dir,
                                                    !.subfolder_name = subfolder_name]
             /\ planHist' = [planHist EXCEPT !.calls = @ + 1]
             /\ UNCHANGED <<DOWNLOAD_PLAN_ACCUM, DOWNLOAD_PLAN_ACCUM_CAS_SET,
                            DOWNLOAD_PLAN_ACCUM_CAS_SINCE_WRITE, disk>>
        ELSE LET g      == target.cas_folder_name
                 filed  == FileLinks(DOWNLOAD_PLAN_ACCUM, g, target.relative_parts, links)
                 isNew  == g \notin DOWNLOAD_PLAN_ACCUM_CAS_SET
                 flush  == isNew /\ ThresholdReached(DOWNLOAD_PLAN_ACCUM_CAS_SINCE_WRITE,
                                                     DOWNLOAD_PLAN_WRITE_BATCH_SIZE)
                 wrote  == flush /\ writeOk
                 reset  == ResetAfterWrite(flush, writeOk)
             IN  /\ disk' = IF wrote
                            THEN write_plan_to_disk(disk, filed.plan, planClock)
                            ELSE disk
                 /\ DOWNLOAD_PLAN_ACCUM' =
                        IF reset THEN reset_module_plan(filed.plan.folder)
                                 ELSE filed.plan
                 /\ DOWNLOAD_PLAN_ACCUM_CAS_SET' =
                        IF ~isNew THEN DOWNLOAD_PLAN_ACCUM_CAS_SET
                        ELSE (IF reset THEN {} ELSE DOWNLOAD_PLAN_ACCUM_CAS_SET) \cup {g}
                 /\ DOWNLOAD_PLAN_ACCUM_CAS_SINCE_WRITE' =
                        IF ~isNew THEN DOWNLOAD_PLAN_ACCUM_CAS_SINCE_WRITE
                        ELSE (IF reset THEN 0 ELSE DOWNLOAD_PLAN_ACCUM_CAS_SINCE_WRITE) + 1
                 /\ lastCall' = [op |-> "add", filed |-> TRUE, group |-> g,
                                 links |-> links,
                                 ret |-> <<filed.added, filed.skipped_duplicates>>,
                                 flushed |-> flush, wrote |-> wrote,
                                 ts |-> planClock,
                                 leaf |-> filed.leaf, before |-> filed.before,
                                 after |-> filed.after, path |-> NoPath,
                                 existed |-> filed.existed,
                                 nodes_before |-> filed.nodes_before,
                                 nodes_after |-> filed.nodes_after,
                                 cas_dir |-> cas_dir,
                                 subfolder_name |-> subfolder_name]
                 /\ planHist' = [NextOrder(g) EXCEPT
                                    !.autoWrites = @ + (IF wrote THEN 1 ELSE 0),
                                    !.writeFailures = @ \/ (flush /\ ~writeOk),
                                    !.overwrites = @ \/ (wrote /\ planClock \in DOMAIN disk),
                                    !.added = @ \cup Filed(g, links),
                                    !.pending = IF wrote THEN {}
                                                ELSE @ \cup Filed(g, links)]

\* lines 194-199: the call reaches _write_plan_to_disk, so that the outcome
\* of the write is an input of the call
WriteAttempted(cas_dir, subfolder_name, links) ==
    LET target == ResolveTarget(cas_dir, subfolder_name, links)
    IN  /\ target.ok
        /\ target.cas_folder_name \notin DOWNLOAD_PLAN_ACCUM_CAS_SET
        /\ ThresholdReached(DOWNLOAD_PLAN_ACCUM_CAS_SINCE_WRITE,
                            DOWNLOAD_PLAN_WRITE_BATCH_SIZE)

AddLinks ==
    /\ PlanBudget
    /\ \E c \in PlanCalls :
          \E writeOk \in IF WriteAttempted(c.cas_dir, c.subfolder_name, c.links)
                         THEN BOOLEAN ELSE {TRUE} :
              add_links_to_plan(c.cas_dir, c.subfolder_name, c.links, writeOk)
    /\ UNCHANGED <<DOWNLOAD_PLAN_WRITE_BATCH_SIZE, planClock>>
    /\ UNCHANGED <<dbVars, runVars>>

\* flush(); writeOk as above; atExit: called by the atexit hook
flush(writeOk, atExit) ==
    IF DOWNLOAD_PLAN_ACCUM.subfolderList = <<>> /\ DOWNLOAD_PLAN_ACCUM.downloadList = <<>>
    THEN /\ lastCall' = NotFiled("flush")
         /\ planHist' = [planHist EXCEPT !.calls = @ + 1, !.exited = atExit]
         /\ UNCHANGED <<DOWNLOAD_PLAN_ACCUM, DOWNLOAD_PLAN_ACCUM_CAS_SET,
                        DOWNLOAD_PLAN_ACCUM_CAS_SINCE_WRITE, disk>>
    ELSE LET reset == ResetAfterWrite(TRUE, writeOk)
         IN  /\ disk' = IF writeOk
                        THEN write_plan_to_disk(disk, DOWNLOAD_PLAN_ACCUM, planClock)
                        ELSE disk
             /\ DOWNLOAD_PLAN_ACCUM' =
                    IF reset THEN reset_module_plan(DOWNLOAD_PLAN_ACCUM.folder)
                             ELSE DOWNLOAD_PLAN_ACCUM
             /\ DOWNLOAD_PLAN_ACCUM_CAS_SET' =
                    IF reset THEN {} ELSE DOWNLOAD_PLAN_ACCUM_CAS_SET
             /\ DOWNLOAD_PLAN_ACCUM_CAS_SINCE_WRITE' =
                    IF reset THEN 0 ELSE DOWNLOAD_PLAN_ACCUM_CAS_SINCE_WRITE
             /\ lastCall' = [NotFiled("flush") EXCEPT
                                !.flushed = TRUE, !.wrote = writeOk,
                                !.path = IF writeOk THEN PathAt(planClock) ELSE NoPath]
             /\ planHist' = [planHist EXCEPT
                                !.calls = @ + 1,
                                !.exited = atExit,
                                !.explicitWrites = @ + (IF writeOk THEN 1 ELSE 0),
                                !.writeFailures = @ \/ ~writeOk,
                                !.overwrites = @ \/ (writeOk /\ planClock \in DOMAIN disk),
                                !.pending = IF writeOk THEN {} ELSE @]

Flush ==
    /\ PlanBudget
    /\ \E writeOk \in BOOLEAN : flush(writeOk, FALSE)
    /\ UNCHANGED <<DOWNLOAD_PLAN_WRITE_BATCH_SIZE, planClock>>
    /\ UNCHANGED <<dbVars, runVars>>

\* The interpreter exits: the hook left by atexit.register(download_plan.flush)
\* runs, and nothing runs after it.
ProcessExit ==
    /\ ~planHist.exited
    /\ \E writeOk \in BOOLEAN : flush(writeOk, TRUE)
    /\ UNCHANGED <<DOWNLOAD_PLAN_WRITE_BATCH_SIZE, planClock>>
    /\ UNCHANGED <<dbVars, runVars>>

\* a second passes on the wall clock
PlanTick ==
    /\ planClock < MaxClock
    /\ ~planHist.exited
    /\ planClock' = planClock + 1
    /\ UNCHANGED <<DOWNLOAD_PLAN_ACCUM, DOWNLOAD_PLAN_ACCUM_CAS_SET,
                   DOWNLOAD_PLAN_ACCUM_CAS_SINCE_WRITE, DOWNLOAD_PLAN_WRITE_BATCH_SIZE,
                   disk, lastCall, planHist>>
    /\ UNCHANGED <<dbVars, runVars>>

\* init(folder, out_dir, batch_size)
PlanInit ==
    /\ DOWNLOAD_PLAN_ACCUM = NewFolder(RootFolder)
    /\ DOWNLOAD_PLAN_ACCUM_CAS_SET = {}
    /\ DOWNLOAD_PLAN_ACCUM_CAS_SINCE_WRITE = 0
    /\ DOWNLOAD_PLAN_WRITE_BATCH_SIZE \in 1..MaxBatch
    /\ disk = <<>>
    /\ planClock = 0
    /\ lastCall = NotFiled("init")
    /\ planHist = [calls |-> 0, autoWrites |-> 0, explicitWrites |-> 0, current |-> "",
                   closed |-> {}, interleaved |-> FALSE, groups |-> {},
                   writeFailures |-> FALSE, overwrites |-> FALSE,
                   added |-> {}, pending |-> {},
                   exited |-> FALSE]

NextPlan == AddLinks \/ Flush \/ ProcessExit \/ PlanTick

(***************************************************************************)
(* harvest_framework.run_harvest.                                          *)
(*                                                                         *)
(* A row of the input is [cas, url, other]: the first column, the last     *)
(* column and whether some column between them is filled; "" is an empty   *)
(* (or blank) field.  The driver is the drive_func argument: any callable  *)
(* that returns a result dict or raises.                                   *)
(***************************************************************************)
None == <<>>            \* Python's None for an optional number; <<n>> is n
Some(n) == <<n>>

CsvRow(cas, url, other) == [cas |-> cas, url |-> url, other |-> other]

RowValues ==
    {CsvRow("", "", ""),          \* a row of empty fields
     CsvRow("A", "", "x"),        \* no URL
     CsvRow("A", "url", "x"),
     CsvRow("B", "url", "x")}

\* Config.start_row when it is set; run_harvest never reads the attribute
StartRow == 2

\* The Config objects a run is given
Configs ==
    [max_downloads : {None} \cup {Some(n) : n \in 0..MaxBudget}, start_row : {None}]
    \cup {[max_downloads |-> None, start_row |-> Some(StartRow)]}

\* all(not (v and v.strip()) for v in row.values())
IsBlank(row) == row.cas = "" /\ row.url = "" /\ row.other = ""

\* A budget test with > for >= (a variant of the model)
BudgetExceeded(max_downloads, download_calls) ==
    max_downloads # None /\ download_calls > max_downloads[1]

\* line 125: config.max_downloads is not None and download_calls >= it
BudgetReached(max_downloads, download_calls) ==
    max_downloads # None /\ download_calls >= max_downloads[1]

\* A skip test that never skips (a variant of the model)
NeverSkip(need_html_download, need_pdf_download) == FALSE

\* line 139: not need_html_download and not need_pdf_download
NothingNeeded(need_html_download, need_pdf_download) ==
    ~need_html_download /\ ~need_pdf_download

\* What drive_func hands back: it raises, or returns the result dict, of
\* which run_harvest reads result['html']['success'] and
\* result['pdf']['success'] (None counts as False).
DriverResults ==
    [raised : BOOLEAN, attempted : BOOLEAN, html_success : BOOLEAN, pdf_success : BOOLEAN]

\* run_harvest, lines 173-195, for one file type: the table afterwards and
\* whether the call raised.  outcome is [db, raised, successes, calls];
\* calls counts the log_success / log_failure calls made.
record_one(outcome, need, success, cas_val, file_type, t) ==
    IF outcome.raised \/ ~need THEN outcome
    ELSE IF success
    THEN IF Accepts(LogSuccessParams, LogSuccessArgs)
         THEN [outcome EXCEPT !.db = log_success(@, cas_val, file_type, "local_file", t),
                              !.successes = @ \cup {file_type},
                              !.calls = @ + 1]
         ELSE [outcome EXCEPT !.raised = TRUE, !.calls = @ + 1]
    ELSE IF Accepts(LogFailureParams, LogFailureArgs)
         THEN [outcome EXCEPT !.db = log_failure(@, cas_val, file_type, t),
                              !.calls = @ + 1]
         ELSE [outcome EXCEPT !.raised = TRUE, !.calls = @ + 1]

record_outcomes(db, cas_val, need_html, need_pdf, result, t) ==
    record_one(
        record_one([db |-> db, raised |-> FALSE, successes |-> {}, calls |-> 0],
                   need_html, result.html_success, cas_val, section5_html, t),
        need_pdf, result.pdf_success, cas_val, section5_pdf, t)

\* The finally block (lines 200-226) and what follows it: the file handle,
\* the page, the browser and Playwright are closed; an exception on its way
\* out goes on to the caller, otherwise the summary is logged and 0 returned.
Finish(r, raised) ==
    [r EXCEPT !.pc = "done",
              !.fh = "closed",
              !.browser = IF @ = "open" THEN "closed" ELSE @,
              !.rc = IF raised THEN "raised" ELSE "0"]

RunLocals ==
    [pc |-> "start", idx |-> 0, total_rows |-> 0, download_calls |-> 0,
     html_success_count |-> 0, pdf_success_count |-> 0, heartbeats |-> 0,
     fh |-> "none", browser |-> "none", rc |-> "none", db_open |-> TRUE]

NoDispatch ==
    [row |-> 0, cas |-> "", need_html |-> FALSE, need_pdf |-> FALSE,
     stop |-> FALSE, read_html |-> TRUE, read_pdf |-> TRUE,
     returned |-> FALSE, attempted |-> FALSE, record_calls |-> 0,
     html_success |-> FALSE, pdf_success |-> FALSE, before |-> <<>>]

\* lines 84-115: the directories, the db handle, the shared browser and the
\* input file.  launched: whether Playwright could be started; opened:
\* whether the input file could be opened; db_opens: whether the database
\* at config.db_path can be opened (HarvestDB(config.db_path), line 87, only
\* keeps the path: sqlite3.connect is left to each later call).
StartRun(db_opens) ==
    /\ run.pc = "start"
    /\ \E launched \in BOOLEAN, opened \in BOOLEAN :
          run' = IF opened
                 THEN [run EXCEPT !.pc = "loop", !.fh = "open", !.db_open = db_opens,
                                  !.browser = IF launched THEN "open" ELSE "none"]
                 ELSE [run EXCEPT !.pc = "done", !.rc = "1", !.db_open = db_opens,
                                  !.browser = IF launched THEN "open" ELSE "none"]
    /\ UNCHANGED <<rows, config, stop_file, runHist, harvest_log, now, dbHist>>
    /\ UNCHANGED planVars

InLoop == run.pc = "loop" /\ run.idx < Len(rows)
ThisRow == rows[run.idx + 1]

\* lines 122-123: a blank row is passed over
RowBlank ==
    /\ InLoop
    /\ IsBlank(ThisRow)
    /\ run' = [run EXCEPT !.idx = @ + 1]
    /\ UNCHANGED <<rows, config, stop_file, runHist, harvest_log, now, dbHist>>
    /\ UNCHANGED planVars

\* lines 125-127: the budget is used up: break
RowBudgetStop ==
    /\ InLoop
    /\ ~IsBlank(ThisRow)
    /\ BudgetReached(config.max_downloads, run.download_calls)
    /\ run' = Finish(run, FALSE)
    /\ runHist' = [runHist EXCEPT !.budget_stop = TRUE]
    /\ UNCHANGED <<rows, config, stop_file, harvest_log, now, dbHist>>
    /\ UNCHANGED planVars

Counted == ~IsBlank(ThisRow) /\ ~BudgetReached(config.max_downloads, run.download_calls)

\* lines 129-135: the row is counted; without a URL or an id it is skipped
RowMissingField ==
    /\ InLoop
    /\ Counted
    /\ (ThisRow.url = "" \/ ThisRow.cas = "")
    /\ run' = [run EXCEPT !.idx = @ + 1, !.total_rows = @ + 1]
    /\ UNCHANGED <<rows, config, stop_file, runHist, harvest_log, now, dbHist>>
    /\ UNCHANGED planVars

Complete == Counted /\ ThisRow.url # "" /\ ThisRow.cas # ""

\* lines 137-141: nothing is needed for the row
RowSkip(read_html, read_pdf) ==
    /\ InLoop
    /\ Complete
    /\ NothingNeeded(do_need_download(harvest_log, ThisRow.cas, section5_html, read_html),
                     do_need_download(harvest_log, ThisRow.cas, section5_pdf, read_pdf))
    /\ run' = [run EXCEPT !.idx = @ + 1, !.total_rows = @ + 1]
    /\ runHist' = [runHist EXCEPT !.skipped = @ + 1]
    /\ UNCHANGED <<rows, config, stop_file, harvest_log, now, dbHist>>
    /\ UNCHANGED planVars

\* lines 143-198: the driver is called with the row and hands back result;
\* its outcome is recorded
Dispatch(read_html, read_pdf, result) ==
    /\ InLoop
    /\ Complete
    /\ LET need_html == do_need_download(harvest_log, ThisRow.cas, section5_html, read_html)
           need_pdf  == do_need_download(harvest_log, ThisRow.cas, section5_pdf, read_pdf)
       IN  /\ ~NothingNeeded(need_html, need_pdf)
           /\  LET out == record_outcomes(harvest_log, ThisRow.cas,
                                           need_html, need_pdf, result, now)
                    counted == [run EXCEPT !.idx = @ + 1, !.total_rows = @ + 1]
                    called  == [counted EXCEPT !.download_calls = @ + 1]
                IN  /\ run' =
                         IF result.raised THEN Finish(counted, TRUE)
                         ELSE IF out.raised THEN Finish(called, TRUE)
                         ELSE [called EXCEPT
                                 !.html_success_count =
                                     @ + (IF section5_html \in out.successes THEN 1 ELSE 0),
                                 !.pdf_success_count =
                                     @ + (IF section5_pdf \in out.successes THEN 1 ELSE 0),
                                 !.heartbeats = @ + 1]
                    /\ harvest_log' = IF result.raised \/ out.raised
                                      THEN harvest_log ELSE out.db
                    /\ runHist' = [runHist EXCEPT
                                     !.dispatches = @ + 1,
                                     !.all_success = @ /\ ~result.raised
                                                       /\ result.attempted
                                                       /\ result.html_success
                                                       /\ result.pdf_success,
                                     !.last = [row |-> run.idx + 1, cas |-> ThisRow.cas,
                                               need_html |-> need_html,
                                               need_pdf |-> need_pdf,
                                               stop |-> stop_file,
                                               read_html |-> read_html,
                                               read_pdf |-> read_pdf,
                                               returned |-> ~result.raised,
                                               attempted |-> result.attempted,
                                               record_calls |->
                                                   IF result.raised THEN 0
                                                   ELSE out.calls,
                                               html_success |-> result.html_success,
                                               pdf_success |-> result.pdf_success,
                                               before |-> harvest_log]]
    /\ UNCHANGED <<rows, config, stop_file, now, dbHist>>

\* a driver that leaves the download plan alone
RowDispatch(read_html, read_pdf) ==
    /\ \E result \in DriverResults : Dispatch(read_html, read_pdf, result)
    /\ UNCHANGED planVars

\* the reader is exhausted: the loop ends
EndOfInput ==
    /\ run.pc = "loop"
    /\ run.idx = Len(rows)
    /\ run' = Finish(run, FALSE)
    /\ UNCHANGED <<rows, config, stop_file, runHist, harvest_log, now, dbHist>>
    /\ UNCHANGED planVars

\* somebody creates the stop file
TouchStopFile ==
    /\ ~stop_file
    /\ run.pc # "done"
    /\ stop_file' = TRUE
    /\ UNCHANGED <<rows, config, run, runHist, harvest_log, now, dbHist>>
    /\ UNCHANGED planVars

\* the script is started again on the same store and input
NewRun ==
    /\ run.pc = "done"
    /\ runHist.runs < MaxRuns
    /\ run' = RunLocals
    /\ runHist' = [runs |-> runHist.runs + 1, dispatches |-> 0, skipped |-> 0,
                   budget_stop |-> FALSE, last |-> NoDispatch,
                   all_success |-> TRUE, store0 |-> harvest_log]
    /\ UNCHANGED <<rows, config, stop_file, harvest_log, now, dbHist>>
    /\ UNCHANGED planVars

\* The store a run starts on: what earlier log_success / log_failure calls
\* left for entity "A" (nothing, both types fetched, both failed, one each).
RunStores ==
    {<<>>,
     log_success(log_success(<<>>, "A", section5_html, "p1", 0), "A", section5_pdf, "p1", 0),
     log_failure(log_failure(<<>>, "A", section5_html, 0), "A", section5_pdf, 0),
     log_failure(log_success(<<>>, "A", section5_html, "p1", 0), "A", section5_pdf, 0)}

RowSeqs == [1..MaxRows -> RowValues]

RunInit ==
    /\ rows \in RowSeqs
    /\ config \in Configs
    /\ stop_file = FALSE
    /\ run = RunLocals
    /\ runHist = [runs |-> 1, dispatches |-> 0, skipped |-> 0,
                  budget_stop |-> FALSE, last |-> NoDispatch,
                  all_success |-> TRUE, store0 |-> harvest_log]

NextRun ==
    \/ StartRun(TRUE)
    \/ RowBlank
    \/ RowBudgetStop
    \/ RowMissingField
    \/ RowSkip(TRUE, TRUE)
    \/ RowDispatch(TRUE, TRUE)
    \/ EndOfInput
    \/ TouchStopFile
    \/ NewRun

\* as NextRun, with status reads that may fail to reach the storage
NextRunFault ==
    \/ \E db_opens \in BOOLEAN : StartRun(db_opens)
    \/ RowBlank
    \/ RowBudgetStop
    \/ RowMissingField
    \/ \E read_html \in BOOLEAN, read_pdf \in BOOLEAN :
          RowSkip(read_html /\ run.db_open, read_pdf /\ run.db_open)
    \/ \E read_html \in BOOLEAN, read_pdf \in BOOLEAN :
          RowDispatch(read_html /\ run.db_open, read_pdf /\ run.db_open)
    \/ EndOfInput
    \/ TouchStopFile
    \/ NewRun

(***************************************************************************)
(* A run whose driver files the links it discovers in the download plan,   *)
(* as drive_section5_download does, and the exit of the process after it.  *)
(***************************************************************************)
\* harvest_framework.py line 149: the folder name f"CAS-{cas_clean}"
CasFolder(cas) ==
    IF cas = "A" THEN "CAS-1" ELSE IF cas = "B" THEN "CAS-2" ELSE "CAS-3"

\* drive_section5_download.py line 259: section5_dir = cas_dir / pmn_number,
\* as the string the driver passes for subfolder_name
Section5Dir(cas) == Str(<<RootFolder, "/", CasFolder(cas), "/", "P-1">>)

\* the one link the driver finds on the page of an entity
DiscoveredUrl(cas) ==
    IF cas = "A" THEN "u1" ELSE IF cas = "B" THEN "u2" ELSE "u3"

\* Input files: three entities in order; a blank row and a row without a
\* URL before an entity; a blank row between two entities
HarvestInputs ==
    {<<CsvRow("A", "url", "x"), CsvRow("B", "url", "x"), CsvRow("C", "url", "x")>>,
     <<CsvRow("", "", ""), CsvRow("A", "", "x"), CsvRow("A", "url", "x")>>,
     <<CsvRow("A", "url", "x"), CsvRow("", "", ""), CsvRow("C", "url", "x")>>}

\* lines 143-198 with a driver that may reach line 300 of
\* drive_section5_download.py, add_links_to_plan(DOWNLOAD_PLAN_ACCUM, "",
\* section5_dir, pdf_link_list), before it returns or raises
RowHarvest ==
    /\ \E result \in DriverResults, found \in BOOLEAN :
          /\ Dispatch(TRUE, TRUE, result)
          /\ found => (result.attempted \/ result.raised)
          /\ IF found
             THEN /\ add_links_to_plan(<<>>, Section5Dir(ThisRow.cas),
                                       <<DiscoveredUrl(ThisRow.cas)>>, TRUE)
                  /\ UNCHANGED <<DOWNLOAD_PLAN_WRITE_BATCH_SIZE, planClock>>
             ELSE UNCHANGED planVars

\* the interpreter exits once run_harvest has returned or raised
HarvestExit ==
    /\ run.pc = "done"
    /\ ProcessExit

HarvestInit ==
    /\ PlanInit
    /\ harvest_log \in RunStores
    /\ now = TickHours
    /\ dbHist = DbStart
    /\ rows \in HarvestInputs
    /\ config \in Configs
    /\ stop_file = FALSE
    /\ run = RunLocals
    /\ runHist = [runs |-> 1, dispatches |-> 0, skipped |-> 0,
                  budget_stop |-> FALSE, last |-> NoDispatch,
                  all_success |-> TRUE, store0 |-> harvest_log]

NextHarvest ==
    \/ StartRun(TRUE)
    \/ RowBlank
    \/ RowBudgetStop
    \/ RowMissingField
    \/ RowSkip(TRUE, TRUE)
    \/ RowHarvest
    \/ EndOfInput
    \/ PlanTick
    \/ HarvestExit

(***************************************************************************)
(* The specifications: the plan accumulator alone, the store alone, and a  *)
(* run over a store; the parts a specification leaves out stay as they     *)
(* start.                                                                  *)
(***************************************************************************)
PlanIdle ==
    /\ PlanInit
    /\ DOWNLOAD_PLAN_WRITE_BATCH_SIZE = 1

DbIdle ==
    /\ harvest_log = <<>>
    /\ now = 0
    /\ dbHist = DbStart

RunIdle ==
    /\ RunInit
    /\ rows = [i \in 1..MaxRows |-> CsvRow("", "", "")]
    /\ config = [max_downloads |-> None, start_row |-> None]

Init == PlanInit /\ DbIdle /\ RunIdle

SpecPlan == Init /\ [][NextPlan]_vars

InitDB == PlanIdle /\ DbInit /\ RunIdle

SpecDB == InitDB /\ [][NextDB]_vars

RunStart ==
    /\ PlanIdle
    /\ harvest_log \in RunStores
    /\ now = TickHours
    /\ dbHist = DbStart
    /\ RunInit

SpecRun == RunStart /\ [][NextRun]_vars

SpecRunFault == RunStart /\ [][NextRunFault]_vars

SpecHarvest == HarvestInit /\ [][NextHarvest]_vars

(***************************************************************************)
(* Properties of the plan accumulator (SpecPlan).                          *)
(***************************************************************************)
FilesHolding(g) == {t \in DOMAIN disk : GroupUrls(disk[t], g) # {}}

\* flush() has just run, and nothing but add_links_to_plan ran before it
FinalFlushDone ==
    /\ lastCall.op = "flush"
    /\ planHist.explicitWrites = (IF lastCall.wrote THEN 1 ELSE 0)
    /\ DOWNLOAD_PLAN_ACCUM.subfolderList = <<>>

\* C1: when the calls for a group are contiguous and the writes succeed, no
\* group has URLs in two different output files once the final flush is done.
C1_NoGroupInTwoFiles ==
    (~planHist.interleaved /\ ~planHist.writeFailures /\ FinalFlushDone) =>
        \A g \in planHist.groups : Cardinality(FilesHolding(g)) <= 1

\* C2: when a call for a new group finds the counter at the batch size, the
\* tree is written and reset before the group is inserted: the written file
\* holds none of the new group's URLs and the tree after the call holds all
\* of them.
C2_FlushBeforeInsert ==
    (lastCall.op = "add" /\ lastCall.wrote) =>
        /\ GroupUrls(disk[lastCall.ts], lastCall.group) = {}
        /\ Range(lastCall.links) \ {""} \subseteq GroupUrls(DOWNLOAD_PLAN_ACCUM, lastCall.group)

TreeEmpty(plan) == plan.subfolderList = <<>> /\ plan.downloadList = <<>>

\* a step in which flush() ran, called directly or by the exit hook
FlushStep == planHist'.calls = planHist.calls + 1 /\ lastCall'.op = "flush"

\* C16: flush on a tree with children or URLs, when the write succeeds, puts
\* the whole current tree in one file and leaves an empty root with the same
\* folder name, an empty group set and a zero counter; flush on an empty
\* tree writes no file, changes no state and returns None.
C16_FlushContract ==
    [][FlushStep =>
        /\ (~TreeEmpty(DOWNLOAD_PLAN_ACCUM) /\ lastCall'.wrote) =>
               /\ DOMAIN disk' = DOMAIN disk \cup {planClock}
               /\ disk'[planClock] = DOWNLOAD_PLAN_ACCUM
               /\ \A t \in DOMAIN disk \ {planClock} : disk'[t] = disk[t]
               /\ lastCall'.path = PathAt(planClock)
               /\ DOWNLOAD_PLAN_ACCUM' = NewFolder(DOWNLOAD_PLAN_ACCUM.folder)
               /\ DOWNLOAD_PLAN_ACCUM_CAS_SET' = {}
               /\ DOWNLOAD_PLAN_ACCUM_CAS_SINCE_WRITE' = 0
        /\ TreeEmpty(DOWNLOAD_PLAN_ACCUM) =>
               /\ UNCHANGED <<DOWNLOAD_PLAN_ACCUM, DOWNLOAD_PLAN_ACCUM_CAS_SET,
                              DOWNLOAD_PLAN_ACCUM_CAS_SINCE_WRITE,
                              DOWNLOAD_PLAN_WRITE_BATCH_SIZE, disk>>
               /\ lastCall'.path = NoPath
               /\ ~lastCall'.wrote]_vars

\* flush has written a tree of two groups and left the accumulator empty
C16_FlushedTwoGroups ==
    /\ lastCall.op = "flush" /\ lastCall.wrote
    /\ Cardinality(GroupNames(disk[lastCall.ts])) = 2
    /\ TreeEmpty(DOWNLOAD_PLAN_ACCUM)
    /\ DOWNLOAD_PLAN_ACCUM_CAS_SINCE_WRITE = 0

\* The <<group, URL>> pairs a tree holds
TreePairs(plan) ==
    UNION {{<<g, u>> : u \in GroupUrls(plan, g)} : g \in GroupNames(plan)}

\* a step of add_links_to_plan or flush in which the write was tried and failed
FailedWriteStep ==
    /\ planHist'.calls = planHist.calls + 1
    /\ lastCall'.flushed /\ ~lastCall'.wrote

\* a step in which a write succeeds after an earlier one has failed
RetriedWriteStep ==
    /\ planHist'.calls = planHist.calls + 1
    /\ lastCall'.wrote /\ planHist.writeFailures

\* C17: a failed write, in flush or in the automatic flush of
\* add_links_to_plan, writes nothing and resets nothing: every URL accumulated
\* before it is still in the tree, and the next write that succeeds puts all
\* of them in its file.
C17_FailedWriteKeepsTree ==
    [][/\ FailedWriteStep =>
             /\ disk' = disk
             /\ planHist.pending \subseteq TreePairs(DOWNLOAD_PLAN_ACCUM)
             /\ TreePairs(DOWNLOAD_PLAN_ACCUM) \subseteq TreePairs(DOWNLOAD_PLAN_ACCUM')
             /\ planHist'.pending \subseteq TreePairs(DOWNLOAD_PLAN_ACCUM')
             /\ lastCall'.op = "flush" => DOWNLOAD_PLAN_ACCUM' = DOWNLOAD_PLAN_ACCUM
       /\ RetriedWriteStep =>
             planHist.pending \subseteq TreePairs(disk'[planClock])]_vars

\* a write failed with two URLs accumulated, and a later flush wrote them
C17_WrittenAfterFailure ==
    /\ planHist.writeFailures
    /\ lastCall.op = "flush" /\ lastCall.wrote
    /\ Cardinality(TreePairs(disk[lastCall.ts])) >= 2
    /\ planHist.autoWrites = 0 /\ planHist.explicitWrites = 1

\* The <<group, URL>> pairs the output files hold
DiskPairs == UNION {TreePairs(disk[t]) : t \in DOMAIN disk}

\* C15: once the process has exited, with every write having succeeded,
\* every URL that add_links_to_plan filed is in an output file.
C15_AllAddedUrlsOnDisk ==
    (planHist.exited /\ ~planHist.writeFailures) =>
        planHist.added \subseteq DiskPairs

\* the same, for runs in which no write replaced an earlier file
AddedUrlsOnDiskUnlessReplaced ==
    (planHist.exited /\ ~planHist.writeFailures /\ ~planHist.overwrites) =>
        planHist.added \subseteq DiskPairs

\* C23: no write of a plan file goes to the path of a file written by an
\* earlier flush, however close in time the two are: nothing is overwritten.
C23_NoFileOverwritten == ~planHist.overwrites

\* no two entries of a subfolderList have the same folder name, at any depth
RECURSIVE UniqueSiblings(_)
UniqueSiblings(node) ==
    /\ \A i, j \in 1..Len(node.subfolderList) :
          node.subfolderList[i].folder = node.subfolderList[j].folder => i = j
    /\ \A i \in 1..Len(node.subfolderList) : UniqueSiblings(node.subfolderList[i])

\* C24: in the tree and in every written file no two sibling folders have
\* the same name, and add_links_to_plan on a path that is already there
\* creates no node; on another path it creates one node per missing folder.
C24_UniqueSiblings ==
    /\ UniqueSiblings(DOWNLOAD_PLAN_ACCUM)
    /\ \A t \in DOMAIN disk : UniqueSiblings(disk[t])
    /\ (lastCall.op = "add" /\ lastCall.filed) =>
          /\ lastCall.existed => lastCall.nodes_after = lastCall.nodes_before
          /\ ~lastCall.existed =>
                /\ lastCall.nodes_after > lastCall.nodes_before
                /\ lastCall.nodes_after <= lastCall.nodes_before + Len(lastCall.leaf)

\* a call has added a URL to a nested leaf that was already in the tree
C24_ExistingPathReused ==
    /\ lastCall.op = "add" /\ lastCall.filed
    /\ lastCall.existed
    /\ Len(lastCall.leaf) = 2
    /\ lastCall.ret = <<1, 0>>
    /\ Len(lastCall.after) = 2
    /\ lastCall.nodes_after = 3

\* The folder names a relative path is made of
Segments(subfolder_name) ==
    IF subfolder_name.kind = "list" THEN subfolder_name.v
    ELSE SelectSeq(subfolder_name.v, LAMBDA t : t # "/" /\ t # "\\")

\* names joined by a separator
RECURSIVE Joined(_, _)
Joined(parts, sep) ==
    IF Len(parts) <= 1 THEN parts
    ELSE <<Head(parts), sep>> \o Joined(Tail(parts), sep)

\* The three ways of writing a path of the same segments
SameSegments(subfolder_name) ==
    LET parts == Segments(subfolder_name)
    IN  {Str(Joined(parts, "/")), Str(Joined(parts, "\\")), List(parts)}

AddStep ==
    /\ planHist'.calls = planHist.calls + 1
    /\ lastCall'.op = "add" /\ lastCall'.filed

\* C25: a relative path written with '/', with '\' or as the list of its
\* segments is filed in the same leaf and gives the same tree, and with a
\* group key an empty relative path is filed in the group node itself.
C25_SamePathSameLeaf ==
    [][AddStep =>
        LET call == lastCall'
        IN  /\ \A form \in SameSegments(call.subfolder_name) \ {call.subfolder_name} :
                  LET target == ResolveTarget(call.cas_dir, form, call.links)
                      filed  == FileLinks(DOWNLOAD_PLAN_ACCUM, target.cas_folder_name,
                                          target.relative_parts, call.links)
                  IN  /\ target.ok
                      /\ filed.leaf = call.leaf
                      /\ filed.after = call.after
                      /\ ~call.wrote => filed.plan = DOWNLOAD_PLAN_ACCUM'
            /\ (call.cas_dir # <<>> /\ call.group \notin Range(Segments(call.subfolder_name)))
                  => call.leaf = <<PathName(call.cas_dir)>> \o Segments(call.subfolder_name)
            /\ (call.cas_dir # <<>> /\ Segments(call.subfolder_name) = <<>>)
                  => call.leaf = <<call.group>>]_vars

\* a path written with '\' has been filed in the nested leaf of its segments
C25_BackslashPathFiled ==
    /\ lastCall.op = "add" /\ lastCall.filed
    /\ lastCall.subfolder_name = Str(<<"P-1", "\\", "docs">>)
    /\ lastCall.leaf = <<"CAS-1", "P-1", "docs">>
    /\ PathExists(DOWNLOAD_PLAN_ACCUM, lastCall.leaf)
    /\ NodeAt(DOWNLOAD_PLAN_ACCUM, lastCall.leaf).downloadList = <<"u1">>
    /\ NodeAt(DOWNLOAD_PLAN_ACCUM, <<"CAS-1">>).downloadList # <<>>

\* C26: when every write succeeds, a file written by the automatic flush
\* of add_links_to_plan holds at most DOWNLOAD_PLAN_WRITE_BATCH_SIZE groups.
C26_AutoFlushWithinBatch ==
    (lastCall.op = "add" /\ lastCall.wrote /\ ~planHist.writeFailures) =>
        Cardinality(GroupNames(disk[lastCall.ts])) <= DOWNLOAD_PLAN_WRITE_BATCH_SIZE

\* the counter is the size of the tracked set
CounterMatchesSet ==
    DOWNLOAD_PLAN_ACCUM_CAS_SINCE_WRITE = Cardinality(DOWNLOAD_PLAN_ACCUM_CAS_SET)

\* C27: when every write succeeds, the counter is the size of the tracked
\* group set and the tracked set is the set of top-level folders of the tree.
C27_CounterSetTreeAgree ==
    ~planHist.writeFailures =>
        /\ CounterMatchesSet
        /\ DOWNLOAD_PLAN_ACCUM_CAS_SET = GroupNames(DOWNLOAD_PLAN_ACCUM)

\* The calls that cannot be filed: no links; neither cas_dir nor
\* subfolder_name; no cas_dir and no part of the path with a hyphen
Unfilable(call) ==
    \/ call.links = <<>>
    \/ call.cas_dir = <<>> /\ call.subfolder_name.v = <<>>
    \/ call.cas_dir = <<>> /\ \A p \in Range(Segments(call.subfolder_name)) : ~HasHyphen(p)

AddCallStep ==
    /\ planHist'.calls = planHist.calls + 1
    /\ lastCall'.op = "add"

\* C28: an add_links_to_plan call that cannot be filed returns (0, 0),
\* leaves the tree, the tracked set, the counter and the files as they are
\* and triggers no flush.
C28_UnfilableCallChangesNothing ==
    [][(AddCallStep /\ Unfilable(lastCall')) =>
          /\ ~lastCall'.filed
          /\ lastCall'.ret = <<0, 0>>
          /\ ~lastCall'.flushed /\ ~lastCall'.wrote
          /\ UNCHANGED <<DOWNLOAD_PLAN_ACCUM, DOWNLOAD_PLAN_ACCUM_CAS_SET,
                         DOWNLOAD_PLAN_ACCUM_CAS_SINCE_WRITE, disk>>]_vars

\* a call with links and a path without a hyphen was turned away while the
\* tree held a group and the counter had reached the batch size
C28_TurnedAwayAtThreshold ==
    /\ lastCall.op = "add" /\ ~lastCall.filed
    /\ lastCall.links = <<"u1">>
    /\ lastCall.cas_dir = <<>>
    /\ lastCall.subfolder_name = Str(<<"docs">>)
    /\ ~TreeEmpty(DOWNLOAD_PLAN_ACCUM)
    /\ DOWNLOAD_PLAN_ACCUM_CAS_SINCE_WRITE >= DOWNLOAD_PLAN_WRITE_BATCH_SIZE

NoDuplicates(list) == Cardinality(Range(list)) = Len(list)

\* every downloadList of a tree is duplicate-free
RECURSIVE NoDuplicatesUnder(_)
NoDuplicatesUnder(node) ==
    /\ NoDuplicates(node.downloadList)
    /\ \A i \in 1..Len(node.subfolderList) : NoDuplicatesUnder(node.subfolderList[i])

NonEmptyCount(links) == Cardinality({i \in 1..Len(links) : links[i] # ""})

\* C18: a non-empty URL is appended to the target leaf's list and counted as
\* added exactly when that leaf's list does not hold it yet, and is counted
\* as a duplicate otherwise; other leaves do not matter.  Every list of the
\* tree and of the written files is duplicate-free.
C18_DedupPerLeaf ==
    /\ NoDuplicatesUnder(DOWNLOAD_PLAN_ACCUM)
    /\ \A t \in DOMAIN disk : NoDuplicatesUnder(disk[t])
    /\ (lastCall.op = "add" /\ lastCall.filed) =>
          LET new == (Range(lastCall.links) \ {""}) \ Range(lastCall.before)
          IN  /\ Range(lastCall.after) = Range(lastCall.before) \cup new
              /\ SubSeq(lastCall.after, 1, Len(lastCall.before)) = lastCall.before
              /\ NoDuplicates(lastCall.after)
              /\ lastCall.ret[1] = Cardinality(new)
              /\ lastCall.ret[2] = NonEmptyCount(lastCall.links) - Cardinality(new)

\* the same URL added a second time under the same leaf returns (0, 1) and
\* the leaf's list has length 1, while another leaf holds that URL too
C18_SecondAddIsDuplicate ==
    /\ lastCall.op = "add" /\ lastCall.filed
    /\ lastCall.links = <<"u1">>
    /\ lastCall.ret = <<0, 1>>
    /\ lastCall.before = <<"u1">> /\ lastCall.after = <<"u1">>
    /\ NodeAt(DOWNLOAD_PLAN_ACCUM, lastCall.leaf).downloadList = <<"u1">>
    /\ \E g \in GroupNames(DOWNLOAD_PLAN_ACCUM) \ {lastCall.group} :
          "u1" \in GroupUrls(DOWNLOAD_PLAN_ACCUM, g)

(***************************************************************************)
(* Properties of the state store and of the two fetch decisions (SpecDB).  *)
(* The reads below reach the storage.                                      *)
(***************************************************************************)
NoHistory(key) ==
    \/ key \notin DOMAIN harvest_log
    \/ /\ harvest_log[key].last_success_datetime = NoTime
       /\ harvest_log[key].last_failure_datetime = NoTime

OnlyFailed(key) ==
    /\ key \in DOMAIN harvest_log
    /\ harvest_log[key].last_success_datetime = NoTime
    /\ harvest_log[key].last_failure_datetime # NoTime

\* C3: once log_success has been called for a pair, neither decision asks
\* for a fetch of it again, whatever log_failure / log_success calls and
\* however much time follow.
C3_SuccessIsFinal ==
    \A key \in dbHist.succeeded :
        /\ ~do_need_download(harvest_log, key[1], key[2], TRUE)
        /\ ~need_download_from_db(harvest_log, key[1], key[2], now, TRUE)

\* a failure recorded after the success, longer ago than the cool-down
C3_FailureAfterSuccess ==
    \E key \in dbHist.succeeded :
        /\ harvest_log[key].last_failure_datetime # NoTime
        /\ now - harvest_log[key].last_failure_datetime[1] > CoolDownHours

\* C4: log_failure on a pair that has a record changes nothing but that
\* record's failure time: its local path and success time stay, and so does
\* every other pair's record.
C4_FailureFrame ==
    [][(/\ dbHist'.ops = dbHist.ops + 1
        /\ dbHist'.last.op = "log_failure"
        /\ dbHist'.last.key \in DOMAIN harvest_log)
        => LET key == dbHist'.last.key
           IN  /\ DOMAIN harvest_log' = DOMAIN harvest_log
               /\ \A k \in DOMAIN harvest_log \ {key} : harvest_log'[k] = harvest_log[k]
               /\ harvest_log'[key].local_filepath = harvest_log[key].local_filepath
               /\ harvest_log'[key].last_success_datetime
                      = harvest_log[key].last_success_datetime]_vars

\* log_failure has just run on a pair fetched before, next to other records
C4_FailureOnFetchedPair ==
    /\ dbHist.last.op = "log_failure"
    /\ dbHist.last.key \in dbHist.succeeded
    /\ harvest_log[dbHist.last.key].local_filepath # NULL
    /\ harvest_log[dbHist.last.key].last_failure_datetime # NoTime
    /\ Cardinality(DOMAIN harvest_log) > 1

\* C5: for a pair with no success and a failure at T, and every configured
\* retry interval H, no fetch is asked for before T + H and one is asked for
\* after T + H.
C5_RetryAfterInterval ==
    \A key \in Pairs, H \in RetryIntervals :
        OnlyFailed(key) =>
            LET T == harvest_log[key].last_failure_datetime[1]
                needs == {do_need_download(harvest_log, key[1], key[2], TRUE),
                          need_download_from_db(harvest_log, key[1], key[2], now, TRUE)}
            IN  /\ now < T + H => needs = {FALSE}
                /\ now > T + H => needs = {TRUE}

\* C6: a pair with no record, or with a record that has neither time, is to
\* be fetched, at any time.
C6_NoHistoryNeedsFetch ==
    \A key \in Pairs :
        NoHistory(key) =>
            /\ do_need_download(harvest_log, key[1], key[2], TRUE)
            /\ need_download_from_db(harvest_log, key[1], key[2], now, TRUE)

\* a record with neither time, read after other pairs were written and
\* after more than the cool-down
C6_RecordWithoutTimes ==
    \E key \in DOMAIN harvest_log, other \in Pairs :
        /\ NoHistory(key)
        /\ other \notin DOMAIN harvest_log
        /\ dbHist.ops > 0
        /\ now > CoolDownHours

\* C20: after log_success(id, ft, local_path, navigate_via) the record of the
\* pair has a success time, the given local_path and navigate_via, and no
\* failure time, whatever was recorded for the pair before.
C20_SuccessRecordsNavigateVia ==
    (dbHist.last.op = "log_success" /\ dbHist.last.navigate_via # NULL) =>
        /\ ~dbHist.last.raised
        /\ dbHist.last.key \in DOMAIN harvest_log
        /\ harvest_log[dbHist.last.key].last_success_datetime # NoTime
        /\ harvest_log[dbHist.last.key].local_filepath = dbHist.last.local_filepath
        /\ harvest_log[dbHist.last.key].navigate_via = dbHist.last.navigate_via
        /\ harvest_log[dbHist.last.key].last_failure_datetime = NoTime

\* the same for the call without navigate_via, the one the method accepts:
\* the whole row is replaced and the navigate_via column is left NULL
SuccessHealsFailure ==
    (dbHist.last.op = "log_success" /\ dbHist.last.navigate_via = NULL) =>
        /\ ~dbHist.last.raised
        /\ dbHist.last.key \in DOMAIN harvest_log
        /\ \E t \in 0..now : harvest_log[dbHist.last.key] =
                                 Row(dbHist.last.local_filepath, At(t), NoTime)

\* a log_success call that the method accepts has just repeated the call
\* before it, with the same arguments
RepeatedSuccess ==
    /\ dbHist.last.op = "log_success" /\ ~dbHist.last.raised
    /\ dbHist.repeated

\* C21: two log_success calls in a row with the same arguments leave the
\* table as one call does: the second call changes nothing but the success
\* time of the pair, which is the time of the call, and the pair's row is
\* the row a single call writes, whatever the table held before.
C21_SuccessIdempotent ==
    RepeatedSuccess =>
        LET key == dbHist.last.key
        IN  /\ DOMAIN harvest_log = DOMAIN dbHist.before
            /\ \A k \in DOMAIN harvest_log \ {key} : harvest_log[k] = dbHist.before[k]
            /\ harvest_log[key].local_filepath = dbHist.before[key].local_filepath
            /\ harvest_log[key].last_failure_datetime = dbHist.before[key].last_failure_datetime
            /\ harvest_log[key].navigate_via = dbHist.before[key].navigate_via
            /\ harvest_log[key].local_filepath = dbHist.last.local_filepath
            /\ harvest_log[key].last_failure_datetime = NoTime
            /\ harvest_log[key].last_success_datetime # NoTime

\* the call was repeated a tick after the first one, while the table holds
\* a failure of another pair
C21_RepeatedAfterFailure ==
    /\ RepeatedSuccess
    /\ dbHist.ops = 3
    /\ dbHist.before[dbHist.last.key].last_success_datetime = At(0)
    /\ harvest_log[dbHist.last.key].last_success_datetime = At(TickHours)
    /\ \E k \in DOMAIN harvest_log \ {dbHist.last.key} :
          harvest_log[k].last_failure_datetime # NoTime

(***************************************************************************)
(* Properties of run_harvest (SpecRun; SpecRunFault where status reads may *)
(* fail).  runHist.last is the latest call of the driver in the run.       *)
(***************************************************************************)
Dispatched == runHist.dispatches > 0

Fetched(cas) ==
    \A ft \in FileTypes :
        /\ <<cas, ft>> \in DOMAIN harvest_log
        /\ harvest_log[<<cas, ft>>].last_success_datetime # NoTime

\* C7: a status read that cannot reach the storage is neither "fetch
\* needed" nor "already done": no call of the driver rests on failed reads
\* alone, some file type is needed according to a read that reached the
\* storage.
C7_FailedReadNoDispatch ==
    Dispatched =>
        \/ runHist.last.read_html /\ runHist.last.need_html
        \/ runHist.last.read_pdf /\ runHist.last.need_pdf

C9_StopFileHalts ==
    Dispatched => ~runHist.last.stop

C11_RecordOnlyIfAttempted ==
    (Dispatched /\ runHist.last.returned /\ ~runHist.last.attempted) =>
        runHist.last.record_calls = 0

\* C12: an error raised by the driver is caught by run_harvest, which goes
\* on with the next row: the run does not end with the error.
C12_DriverErrorCaught ==
    (Dispatched /\ ~runHist.last.returned) => run.rc # "raised"

\* C13: when the input file or the database cannot be opened at start-up
\* the run ends with a code other than 0 before any row is processed: no
\* row is read and the driver is not called.
C13_StartupFailureAborts ==
    (run.pc # "start" /\ (run.fh = "none" \/ ~run.db_open)) =>
        /\ run.pc = "done"
        /\ run.rc = "1"
        /\ run.idx = 0
        /\ ~Dispatched

\* the non-blank rows among the first i rows of the input
NonBlankUpTo(i) == Cardinality({j \in 1..i : ~IsBlank(rows[j])})

\* C22: with a start offset S configured, the driver is not called before
\* the S-th non-blank row, and the rows before it write nothing to the store.
C22_NoDispatchBeforeStartRow ==
    config.start_row # None =>
        /\ Dispatched => NonBlankUpTo(runHist.last.row) >= config.start_row[1]
        /\ NonBlankUpTo(run.idx) < config.start_row[1] => harvest_log = runHist.store0

\* C29: whenever run_harvest has returned or raised, a shared browser that
\* was launched has been closed, the return for an input file that cannot
\* be opened included.
C29_BrowserClosedOnEveryReturn == run.pc = "done" => run.browser # "open"

\* what the store is to hold for a file type after the last dispatch
OutcomeRecorded(file_type, need, success) ==
    LET key == <<runHist.last.cas, file_type>>
    IN  IF need
        THEN /\ key \in DOMAIN harvest_log
             /\ IF success
                THEN harvest_log[key].last_success_datetime # NoTime
                ELSE harvest_log[key].last_failure_datetime # NoTime
        ELSE IF key \in DOMAIN runHist.last.before
             THEN key \in DOMAIN harvest_log
                  /\ harvest_log[key] = runHist.last.before[key]
             ELSE key \notin DOMAIN harvest_log

\* C30: after a dispatch whose driver returned with attempted = True, the
\* store holds the reported outcome of every file type that needed a fetch
\* (also when only the pdf did), and the row of a type that needed none is
\* as it was.
C30_OutcomeRecordedPerType ==
    (Dispatched /\ runHist.last.returned /\ runHist.last.attempted) =>
        /\ OutcomeRecorded(section5_html, runHist.last.need_html, runHist.last.html_success)
        /\ OutcomeRecorded(section5_pdf, runHist.last.need_pdf, runHist.last.pdf_success)

(***************************************************************************)
(* Properties of a run with the download plan (SpecHarvest).               *)
(***************************************************************************)
\* run_harvest has left the row loop and returned or raised
LoopLeft == run.pc = "done" /\ run.rc \in {"0", "raised"}

\* C14: when run_harvest has left the row loop, for whatever reason, the
\* shared browser is released and the plan accumulator has been flushed.
C14_LoopExitReleasesAndFlushes ==
    LoopLeft =>
        /\ run.fh = "closed"
        /\ run.browser # "open"
        /\ TreeEmpty(DOWNLOAD_PLAN_ACCUM)

\* the release alone
LoopExitReleases == LoopLeft => (run.fh = "closed" /\ run.browser # "open")

InputABC ==
    <<CsvRow("A", "url", "x"), CsvRow("B", "url", "x"), CsvRow("C", "url", "x")>>

Succeeded(cas, file_type) ==
    /\ <<cas, file_type>> \in DOMAIN harvest_log
    /\ harvest_log[<<cas, file_type>>].last_success_datetime # NoTime

\* the output files in the order of their names
FirstFile == CHOOSE t \in DOMAIN disk : \A u \in DOMAIN disk : t <= u
LastFile == CHOOSE t \in DOMAIN disk : \A u \in DOMAIN disk : u <= t

\* C19: rows A, B, C of an input file that opens, on an empty store, batch
\* size 2, no row budget, a driver that reports success with one URL for every row it is given, all
\* writes succeeding: after exit one automatic flush has happened, two files
\* exist, the first with A's and B's trees and the second with C's, the
\* store has success records for all three and 3 heartbeats were printed.
C19_EndToEnd ==
    (/\ rows = InputABC
     /\ runHist.store0 = <<>>
     /\ DOWNLOAD_PLAN_WRITE_BATCH_SIZE = 2
     /\ config.max_downloads = None
     /\ run.fh = "closed"
     /\ runHist.all_success
     /\ Cardinality(planHist.added) = runHist.dispatches
     /\ ~planHist.writeFailures
     /\ planHist.exited)
    =>
    (/\ planHist.autoWrites = 1
     /\ Cardinality(DOMAIN disk) = 2
     /\ GroupNames(disk[FirstFile]) = {"CAS-1", "CAS-2"}
     /\ GroupNames(disk[LastFile]) = {"CAS-3"}
     /\ \A cas \in {"A", "B", "C"}, ft \in FileTypes : Succeeded(cas, ft)
     /\ run.heartbeats = 3)

====
